---- MODULE Spec2Model ----
(***************************************************************************)
(* Model of src/region_demand.py: the retrying executor safe_execute, the  *)
(* quota ledger, the persisted run state (last_fetch.json, rr_state.json,  *)
(* quota_usage.json), the round-robin concept selection and one run of     *)
(* main() over the selected concepts, regions and queries.                 *)
(*                                                                         *)
(* Three specifications share the variables:                               *)
(*   Spec      one run of main() from a persisted state drawn in Init      *)
(*   SpecExec  safe_execute applied to every pattern of attempt outcomes   *)
(*   SpecRR    select_concepts_round_robin applied repeatedly              *)
(* Durations are in milliseconds, costs in quota units, the clock `now`    *)
(* counts ticks of which TicksPerDay make one service-timezone day.        *)
(***************************************************************************)
EXTENDS Integers, Sequences, FiniteSets, TLC

\* ---------------------------------------------------------------- bounds
\* clock ticks per service-timezone (US/Pacific) calendar day
TicksPerDay == 2
\* how many ticks the clock may advance while a run is in progress
MaxTicks == 1
\* remote calls that fail for good plus file writes that fail, per run
MaxFaults == 2
\* largest --target-count drawn for a rotation (SpecRR)
MaxTarget == 4
\* number of successive selections in SpecRR
MaxSelections == 2
\* number of successive runs of main() in SpecDay
MaxRuns == 2
\* number of successive rotations at one target_count in SpecFair
MaxRounds == 5
\* largest number of regions drawn for a scored row (SpecScore)
MaxRegions == 5

\* ------------------------------------------------------ program constants
TARGET_COUNT == 6
MAX_RANK == 10
SEARCH_COST == 100
VIDEOS_COST == 1
CHANNELS_COST == 1
MOSTPOPULAR_COST == 200
\* safe_execute(request_func, max_retries=5, initial_backoff=1.0)
max_retries == 5
initial_backoff == 1000
\* random.uniform(0, 0.5): the two ends of the jitter interval, in ms
Jitters == {0, 500}
\* chunked_list(unique_videos, 50)
CHUNK == 50

\* ------------------------------------------------------------- utilities
EmptyMap == [x \in {} |-> 0]

Put(f, k, v) == [x \in (DOMAIN f) \cup {k} |-> IF x = k THEN v ELSE f[x]]

Min(a, b) == IF a < b THEN a ELSE b

Max(a, b) == IF a > b THEN a ELSE b

\* Python's a % n for n > 0 (result in 0..n-1 also for negative a); TLA+'s
\* % is the same for a positive modulus.
PyMod(a, n) == a % n

\* len(range(k)): a negative count iterates zero times
RangeLen(k) == IF k < 0 THEN 0 ELSE k

Range(s) == {s[i] : i \in 1..Len(s)}

\* lst[:k]
Take(s, k) == SubSeq(s, 1, Min(Len(s), k))

\* the loop without its membership test: s.append(id) for each id
AppendAll(s, items) == s \o items

RECURSIVE AppendNew(_, _)
\* for each id in items: if id not in s: s.append(id)
AppendNew(s, items) ==
    IF items = <<>> THEN s
    ELSE AppendNew(IF Head(items) \in Range(s) THEN s ELSE Append(s, Head(items)),
                   Tail(items))

\* [c for c in concepts if not (c in seen or seen.add(c))]
Unique(s) == AppendNew(<<>>, s)

\* now_pacific.strftime("%Y-%m-%d"): the calendar day of a clock value
DayKey(t) == t \div TicksPerDay

\* ---------------------------------------------------------- safe_execute
Outcomes == {"ok", "transient", "quota"}

RECURSIVE SafeExecuteBadFrom(_, _, _, _, _, _)
\* safe_execute with the backoff left undoubled
SafeExecuteBadFrom(oracle, jit, attempt, backoff, sleeps, trace) ==
    IF oracle[attempt] = "ok"
    THEN [status |-> "returned", invoked |-> attempt, sleeps |-> sleeps,
          trace |-> Append(trace, "call"), err |-> "none",
          log |-> SubSeq(oracle, 1, attempt)]
    ELSE IF attempt = max_retries
    THEN [status |-> "raised", invoked |-> attempt, sleeps |-> sleeps,
          trace |-> Append(trace, "call"), err |-> oracle[attempt],
          log |-> SubSeq(oracle, 1, attempt)]
    ELSE SafeExecuteBadFrom(oracle, jit, attempt + 1, backoff,
             Append(sleeps, [base |-> backoff, jitter |-> jit[attempt]]),
             trace \o <<"call", "sleep">>)

RECURSIVE SafeExecuteFrom(_, _, _, _, _, _)
\* The loop of safe_execute from attempt `attempt` on.  oracle[i] is what
\* the i-th invocation of request_func does, jit[i] the jitter drawn for the
\* sleep after the i-th failure.  Both except clauses (HttpError, Exception)
\* do the same, whatever the failure is: re-raise on the last attempt,
\* otherwise sleep backoff + jitter and double the backoff.  sleeps are the
\* sleeps made, trace the order of invocations and sleeps.
SafeExecuteFrom(oracle, jit, attempt, backoff, sleeps, trace) ==
    IF oracle[attempt] = "ok"
    THEN [status |-> "returned", invoked |-> attempt, sleeps |-> sleeps,
          trace |-> Append(trace, "call"), err |-> "none",
          log |-> SubSeq(oracle, 1, attempt)]
    ELSE IF attempt = max_retries
    THEN [status |-> "raised", invoked |-> attempt, sleeps |-> sleeps,
          trace |-> Append(trace, "call"), err |-> oracle[attempt],
          log |-> SubSeq(oracle, 1, attempt)]
    ELSE SafeExecuteFrom(oracle, jit, attempt + 1, backoff * 2,
             Append(sleeps, [base |-> backoff, jitter |-> jit[attempt]]),
             trace \o <<"call", "sleep">>)

safe_execute(oracle, jit) ==
    SafeExecuteFrom(oracle, jit, 1, initial_backoff, <<>>, <<>>)

\* safe_execute not called yet
NoResult == [status |-> "none", invoked |-> 0, sleeps |-> <<>>, trace |-> <<>>,
             err |-> "none", log |-> <<>>]

\* what a step of main() did remotely: the seq-th logical call of the run,
\* its kind, how safe_execute ended, the outcome of each invocation of
\* request_func, and the cost main() charged for it
NoCall(n) == [seq |-> n, kind |-> "none", status |-> "none", invoked |-> 0,
              log |-> <<>>, cost |-> 0]

CallRecord(n, kind, r, cost) ==
    [seq |-> n, kind |-> kind, status |-> r.status, invoked |-> r.invoked,
     log |-> r.log, cost |-> IF r.status = "returned" THEN cost ELSE 0]

\* ---------------------------------------------------------- quota ledger
\* reset_quota_if_new_day with every other day's entry dropped
ResetDroppingOthers(quota_usage, t) ==
    [key |-> DayKey(t), usage |-> [d \in {DayKey(t)} |-> 0]]

\* reset_quota_if_new_day setting today's entry to 0 whether it is there or not
ResetEveryRun(quota_usage, t) ==
    [key |-> DayKey(t), usage |-> Put(quota_usage, DayKey(t), 0)]

\* reset_quota_if_new_day(quota_usage) at clock value t
reset_quota_if_new_day(quota_usage, t) ==
    [key |-> DayKey(t),
     usage |-> IF DayKey(t) \notin DOMAIN quota_usage
               THEN Put(quota_usage, DayKey(t), 0)
               ELSE quota_usage]

\* quota_usage.get(quota_day_key, 0)
GetOr(f, k, dflt) == IF k \in DOMAIN f THEN f[k] ELSE dflt

\* ------------------------------------------------------ round-robin state
\* content of rr_state.json: kind "ok" holds {"next_idx": idx}; "missing"
\* is an absent file, "garbled" text json.load cannot parse, "list" a JSON
\* array, "badidx" an object whose next_idx is not a number
RRMissing == [kind |-> "missing", idx |-> 0]

RROk(i) == [kind |-> "ok", idx |-> i]

RRBad(k) == [kind |-> k, idx |-> 0]

\* _load_rr_state(): {"next_idx": 0} when open or json.load raises
_load_rr_state(file) == IF file.kind = "ok" THEN file.idx ELSE 0

\* state.get("next_idx", 0) % n raises: a JSON array has no get
\* (AttributeError), a next_idx that is no number has no remainder (TypeError)
RRRaises(file) == file.kind \in {"list", "badidx"}

RECURSIVE Pick(_, _, _)
\* the loop of select_concepts_round_robin: k more picks starting at index
\* i (0-based); returns the picked list and the index after the last pick
Pick(all, i, k) ==
    IF k = 0 THEN [picked |-> <<>>, next |-> i]
    ELSE LET rest == Pick(all, PyMod(i + 1, Len(all)), k - 1)
         IN  [picked |-> <<all[i + 1]>> \o rest.picked, next |-> rest.next]

\* select_concepts_round_robin without the wrap-around of the start index
SelectNoWrap(all, file, target_count) ==
    LET start_idx == Min(_load_rr_state(file), Len(all) - 1)
        start == IF start_idx < 0 THEN 0 ELSE start_idx
    IN  Pick(all, start, RangeLen(Min(target_count, Len(all))))

\* select_concepts_round_robin handing its start index to _save_rr_state
SelectNoAdvance(all, file, target_count) ==
    LET start_idx == PyMod(_load_rr_state(file), Len(all))
    IN  [picked |-> Pick(all, start_idx, RangeLen(Min(target_count, Len(all)))).picked,
         next |-> start_idx]

\* select_concepts_round_robin with range(target_count) for
\* range(min(target_count, n))
SelectNoClamp(all, file, target_count) ==
    LET start_idx == PyMod(_load_rr_state(file), Len(all))
    IN  Pick(all, start_idx, RangeLen(target_count))

\* select_concepts_round_robin for a non-empty list: the picked concepts
\* and the next_idx handed to _save_rr_state
select_concepts_round_robin(all, file, target_count) ==
    LET start_idx == PyMod(_load_rr_state(file), Len(all))
    IN  Pick(all, start_idx, RangeLen(Min(target_count, Len(all))))

\* ------------------------------------------------- configuration inputs
\* regions file, concepts.txt and query_words.json as read at run start
regions == <<"JP", "US">>

\* concept_queries.get(concept, [concept])
query_words(concept) ==
    CASE concept = "a" -> <<"a1", "a2">>
      [] concept = "k" -> <<"k1", "k2">>
      [] OTHER -> <<concept>>

\* ------------------------------------------------------- remote service
\* what youtube.search().list(q, regionCode) answers when it answers
SearchItems(q, region) ==
    CASE q = "a1" /\ region = "JP" -> <<"v1", "v2">>
      [] q = "a1" /\ region = "US" -> <<"v2", "v1">>
      [] q = "a2" /\ region = "JP" -> <<"v2", "v3">>
      [] q = "c" -> <<"v3">>
      [] q = "b" /\ region = "US" -> <<"v1">>
      [] q = "k1" /\ region = "JP" -> <<"w1", "w2", "w3", "w4", "w5", "w6">>
      [] q = "k2" /\ region = "JP" -> <<"w5", "w6", "w7", "w8", "w9", "w10">>
      [] q = "k1" /\ region = "US" ->
            <<"w1", "w2", "w3", "w4", "w5", "w6", "w7", "w8", "w9", "w10",
              "w11", "w12">>
      [] q = "k2" /\ region = "US" -> <<"w12", "w1">>
      [] OTHER -> <<>>

\* what videos().list(chart='mostPopular', regionCode) answers
TrendingItems(region) == IF region = "JP" THEN <<"v1">> ELSE <<>>

\* snippet.channelId of a video ("" when the item carries none)
ChannelOf(v) == IF v = "v3" THEN "" ELSE "ch1"

\* statistics.viewCount of a video (0: the item carries none)
ViewCount(v) ==
    CASE v = "v1" -> 1000
      [] v = "v2" -> 99
      [] v = "v3" -> 0
      [] OTHER -> 9

\* snippet.country of a channel
ChannelCountry(ch) == "JP"

\* snippet.defaultLanguage or defaultAudioLanguage, lower case, cut to the
\* length of a language code ("" when the item carries neither)
DefaultLanguage(v) ==
    CASE v = "v1" -> "ja"
      [] v = "v2" -> "en"
      [] OTHER -> ""

\* (title + ' ' + description).strip() is not empty
HasText(v) == v # "v3"

\* langdetect could be imported
_HAS_LANGDETECT == TRUE

\* lang_prob_matches(sample_text, target_lang): the probability langdetect
\* gives the language, in millionths
DetectProb(v, lang) == IF v \notin {"v1", "v2", "v3"} /\ lang = "ja" THEN 500000 ELSE 0

\* REGION_TO_LANG.get(region.upper())
REGION_TO_LANG(r) == IF r = "JP" THEN "ja" ELSE "en"

\* ------------------------------------------------------------ the state
VARIABLES
    now,              \* the clock
    quota_file,       \* quota_usage.json: day key -> accumulated cost
    last_fetch_file,  \* last_fetch.json: concept -> [form, ts]
    rr_file,          \* rr_state.json
    file_form,        \* what quota_usage.json and last_fetch.json hold as text
    outputs,          \* result tables written so far: concept -> status
    io,               \* the file write attempted by the last step, if any
    args,             \* parse_args(): --concept, --target-count
    all_concepts,     \* concepts.txt
    runs,             \* runs (selections) started so far
    faults,           \* failed remote calls and failed writes so far
    quota_exhausted,  \* the remote service has reported quota exhaustion
    pc,               \* position of main()
    last_fetch,       \* main's local last_fetch
    quota_usage,      \* main's local quota_usage
    quota_day_key,    \* main's local quota_day_key
    total_quota,      \* main's local total_quota
    picked,           \* return value of select_concepts_round_robin
    concepts,         \* main's local concepts
    ci, ri, qi,       \* loop positions: concept, region, query (1-based)
    vids_ordered,     \* candidate list of the region in progress
    all_region_sources, \* provenance: set of <<region, vid, tag>>
    trending_set,     \* main's local trending_set
    region_top_lists, \* region -> truncated candidate list
    video_stats,      \* ids for which videos.list returned statistics
    channel_country,  \* channel ids for which channels.list returned a country
    scored_videos,    \* rows of compute_scores_for_videos
    ex,               \* the remote call made by the last step, if any
    oracle, jit,      \* SpecExec: behaviour of request_func, jitter draws
    result,           \* SpecExec: what safe_execute came to
    other_pc,         \* SpecTwo: position of a second, overlapping run of main()
    other_quota_usage,   \* the second run's local quota_usage
    other_quota_day_key, \* the second run's local quota_day_key
    other_total_quota,   \* the second run's local total_quota
    score_in,         \* SpecScore: the arguments of compute_scores_for_videos
    hint_in,          \* SpecHint: what one row's locality hint is computed from
    hint_row          \* SpecHint: the hint and source tag computed

persisted == <<quota_file, last_fetch_file, rr_file, file_form, outputs>>

inputs == <<args, all_concepts>>

locals == <<last_fetch, quota_usage, quota_day_key, total_quota, concepts,
            ci, ri, qi>>

collected == <<vids_ordered, all_region_sources, trending_set, region_top_lists>>

enriched == <<video_stats, channel_country, scored_videos>>

exec == <<oracle, jit, result>>

other == <<other_pc, other_quota_usage, other_quota_day_key, other_total_quota>>

hint == <<hint_in, hint_row>>

vars == <<now, persisted, io, inputs, runs, faults, quota_exhausted, pc, locals, picked, collected,
          enriched, ex, exec, other, score_in, hint>>

\* a step that writes no file, a step that makes no remote call
NoWrite == io' = [file |-> "none", ok |-> TRUE]

NoRemote == ex' = NoCall(ex.seq)

\* the environment: a remote call that ends as r does, a write that
\* succeeds or not, within the fault budget
Remote(r) ==
    /\ r.status = "raised" => faults < MaxFaults
    /\ faults' = IF r.status = "raised" THEN faults + 1 ELSE faults
    /\ quota_exhausted' = (quota_exhausted \/ "quota" \in Range(r.log))

Write(file, ok) ==
    /\ ~ok => faults < MaxFaults
    /\ faults' = IF ok THEN faults ELSE faults + 1
    /\ io' = [file |-> file, ok |-> ok]

\* ------------------------------------------------------------ initial state
\* the first clock value: the last tick of day 1, so that day 0 is a past
\* day and one tick crosses midnight
StartTime == 2 * TicksPerDay - 1

NoIO == [file |-> "none", ok |-> TRUE]

\* main() not started: its locals hold nothing
RunIdle ==
    /\ pc = "idle" /\ runs = 0 /\ faults = 0 /\ quota_exhausted = FALSE /\ io = NoIO
    /\ last_fetch = EmptyMap /\ quota_usage = EmptyMap
    /\ quota_day_key = 0 /\ total_quota = 0
    /\ picked = <<>> /\ concepts = <<>>
    /\ ci = 0 /\ ri = 0 /\ qi = 0
    /\ vids_ordered = <<>> /\ all_region_sources = {} /\ trending_set = {}
    /\ region_top_lists = EmptyMap
    /\ video_stats = {} /\ channel_country = {} /\ scored_videos = {}
    /\ ex = NoCall(0)

\* compute_scores_for_videos is not applied on its own
NoScoreIn == [video_rows |-> {}, video_occurrence |-> EmptyMap, N_regions |-> 0,
              region_denom_log |-> EmptyMap, trending_set |-> {}]

\* the locality hint is not computed on its own
NoHint == [none |-> TRUE]

\* no second run of main() is under way
OtherIdle ==
    /\ other_pc = "idle" /\ other_quota_usage = EmptyMap
    /\ other_quota_day_key = 0 /\ other_total_quota = 0
    /\ score_in = NoScoreIn
    /\ hint_in = NoHint /\ hint_row = NoHint

\* What a state file holds as text: "dict" a JSON object, "missing" no
\* file, "garbled" text json.load cannot parse, "list" a JSON array.  The
\* variables quota_file and last_fetch_file hold the object when the form is
\* "dict" and the empty map otherwise.
FileForms == {"dict", "missing", "garbled", "list"}

FilesGood == [quota |-> "dict", last_fetch |-> "dict"]

NoOracle == [i \in 1..max_retries |-> "ok"]

NoJit == [i \in 1..max_retries |-> 0]

\* ledgers found on disk: none, yesterday's key only, yesterday's and today's
InitLedgers ==
    {EmptyMap,
     [d \in {DayKey(StartTime) - 1} |-> 150],
     [d \in {DayKey(StartTime) - 1, DayKey(StartTime)} |->
         IF d = DayKey(StartTime) THEN 250 ELSE 150]}

\* last_fetch.json found on disk: none; a legacy {"a": ts} entry written
\* just now; an old entry for a and a fresh one for b
InitLastFetch ==
    {EmptyMap,
     [c \in {"a"} |-> [form |-> "str", ts |-> StartTime]],
     [c \in {"a", "b"} |-> [form |-> "dict",
                            ts |-> IF c = "a" THEN 0 ELSE StartTime]]}

MainArgs ==
    {[concept |-> "", target_count |-> 1],
     [concept |-> "", target_count |-> 2],
     [concept |-> "a", target_count |-> TARGET_COUNT]}

Init ==
    /\ now = StartTime
    /\ quota_file \in InitLedgers
    /\ last_fetch_file \in InitLastFetch
    /\ rr_file = RROk(1)
    /\ outputs = EmptyMap
    /\ args \in MainArgs
    /\ all_concepts = <<"a", "b", "c">>
    /\ oracle = NoOracle /\ jit = NoJit /\ result = NoResult
    /\ file_form = FilesGood
    /\ RunIdle /\ OtherIdle

\* ------------------------------------------------------------- the clock
Tick ==
    /\ pc \notin {"idle", "done"}
    /\ now < StartTime + MaxTicks
    /\ now' = now + 1
    /\ UNCHANGED <<persisted, io, inputs, runs, faults, quota_exhausted, pc, locals, picked, collected,
                   enriched, ex, exec, other, score_in, hint>>

\* ------------------------------------------------------ run-state store
\* load_last_fetch(): {} when the file is missing, when json.load raises and
\* when data.items() raises (a JSON array); legacy string values become
\* {"last_success": ts}, every other value is returned as found (form "num":
\* a number where the record should be)
load_last_fetch(file, form) ==
    IF form = "dict"
    THEN [c \in DOMAIN file |->
             [form |-> IF file[c].form = "str" THEN "dict" ELSE file[c].form,
              ts |-> file[c].ts]]
    ELSE EmptyMap

\* main() lines 303-307: {} when open or json.load raises
load_quota_usage(file, form) == IF form = "dict" THEN file ELSE EmptyMap

\* reset_quota_if_new_day on a JSON array: `quota_day_key not in quota_usage`
\* holds and quota_usage[quota_day_key] = 0 raises TypeError
LedgerRaises(form) == form = "list"

\* last_fetch.get(concept, {}).get("last_success") raises AttributeError
\* when the concept's value is neither a record nor (on disk) a string
RecordRaises(lf, c) == c \in DOMAIN lf /\ lf[c].form = "num"

\* last_fetch.get(concept, {}).get("last_success"); -1 stands for None
LastSuccess(lf, c) == IF c \in DOMAIN lf THEN lf[c].ts ELSE -1

\* select_concepts_round_robin(all_concepts, target_count), its
\* _load_rr_state and _save_rr_state included; ok: the write succeeds
SelectConcepts(t, ok) ==
    IF Len(all_concepts) = 0
    THEN /\ picked' = <<>>
         /\ rr_file' = rr_file
         /\ NoWrite /\ faults' = faults
    ELSE IF RRRaises(rr_file)
    THEN /\ UNCHANGED <<picked, rr_file, faults>>
         /\ NoWrite
    ELSE LET sel == select_concepts_round_robin(all_concepts, rr_file, t)
         IN  /\ picked' = sel.picked
             /\ rr_file' = IF ok THEN RROk(sel.next) ELSE rr_file
             /\ Write("rr", ok)

\* the selection with the rotation run first and --concept applied after it
ChooseRotatingToo(a) ==
    /\ \E ok \in BOOLEAN : SelectConcepts(a.target_count, ok)
    /\ concepts' = IF a.concept # "" THEN <<a.concept>> ELSE Unique(picked')

\* main() lines 311-323 for the command line a: the explicitly requested
\* concept alone, or the rotation's selection with its duplicates removed
ChooseConcepts(a) ==
    IF a.concept # ""
    THEN /\ concepts' = <<a.concept>>
         /\ NoWrite
         /\ UNCHANGED <<picked, rr_file, faults>>
    ELSE /\ \E ok \in BOOLEAN : SelectConcepts(a.target_count, ok)
         /\ concepts' = Unique(picked')

\* the selection ends main() with an uncaught exception
SelectionRaises(a) ==
    a.concept = "" /\ Len(all_concepts) > 0 /\ RRRaises(rr_file)

\* main() lines 275-326: load the state, open the ledger, select concepts.
\* An exception raised here is caught nowhere and ends the run ("aborted").
StartRun ==
    /\ pc = "idle"
    /\ runs' = runs + 1
    /\ last_fetch' = load_last_fetch(last_fetch_file, file_form.last_fetch)
    /\ IF LedgerRaises(file_form.quota)
       THEN /\ pc' = "aborted"
            /\ NoWrite
            /\ UNCHANGED <<quota_day_key, quota_usage, total_quota, concepts,
                           picked, rr_file, faults, ci>>
       ELSE /\ LET r == reset_quota_if_new_day(
                            load_quota_usage(quota_file, file_form.quota), now)
               IN  /\ quota_day_key' = r.key
                   /\ quota_usage' = r.usage
                   /\ total_quota' = GetOr(r.usage, r.key, 0)
            /\ ChooseConcepts(args)
            /\ pc' = IF SelectionRaises(args) THEN "aborted" ELSE "concept"
            /\ ci' = 1
    /\ NoRemote
    /\ UNCHANGED <<now, quota_file, last_fetch_file, file_form, outputs, inputs,
                   quota_exhausted, ri, qi, collected, enriched, exec, other, score_in, hint>>

\* parse_args(): the command line has no option that overrides a cooldown
force == FALSE

\* ------------------------------------------------- the remote failures
\* request_func failing on its first k invocations with error e
OracleOf(k, e) == [i \in 1..max_retries |-> IF i <= k THEN e ELSE "ok"]

\* the behaviours of a remote call drawn in a run: it answers at once, it
\* answers after one failure, it fails on every attempt
MainOracles ==
    {OracleOf(0, "transient")} \cup
    {OracleOf(k, e) : k \in {1, max_retries}, e \in {"transient", "quota"}}

MainJits == {[i \in 1..max_retries |-> j] : j \in Jitters}

\* ----------------------------------------------------- the concept loop
concept == concepts[ci]

region == regions[ri]

\* main() lines 328-347: take up the next concept, enter the first region.
\* The locals assigned further down the loop body are dead here and are
\* cleared at once.  Line 333 raises on a record that is no record.
BeginConcept ==
    /\ pc = "concept"
    /\ ci <= Len(concepts)
    /\ IF RecordRaises(last_fetch, concept)
       THEN /\ pc' = "aborted"
            /\ UNCHANGED <<collected, enriched, ri, qi>>
       ELSE /\ region_top_lists' = EmptyMap
            /\ all_region_sources' = {}
            /\ trending_set' = {}
            /\ vids_ordered' = <<>>
            /\ video_stats' = {} /\ channel_country' = {} /\ scored_videos' = {}
            /\ ri' = 1 /\ qi' = 1
            /\ pc' = "collect"
    /\ NoWrite /\ NoRemote
    /\ UNCHANGED <<now, persisted, inputs, runs, faults, quota_exhausted, last_fetch, quota_usage,
                   quota_day_key, total_quota, picked, concepts, ci, exec, other, score_in, hint>>

\* DoSearch with a failed search called for again
DoSearchRetrying(o, j) ==
    /\ pc = "collect"
    /\ qi <= Len(query_words(concept))
    /\ LET r == safe_execute(o, j)
           items == SearchItems(query_words(concept)[qi], region)
           got == r.status = "returned"
       IN  /\ Remote(r)
           /\ ex' = CallRecord(ex.seq + 1, "search", r, SEARCH_COST)
           /\ total_quota' = IF got THEN total_quota + SEARCH_COST ELSE total_quota
           /\ vids_ordered' = IF got THEN AppendNew(vids_ordered, items)
                              ELSE vids_ordered
           /\ all_region_sources' = all_region_sources \cup
                (IF got THEN {<<region, v, "search">> :
                                 v \in Range(items) \ Range(vids_ordered)}
                 ELSE {})
    /\ qi' = IF safe_execute(o, j).status = "returned" THEN qi + 1 ELSE qi
    /\ NoWrite
    /\ UNCHANGED <<now, persisted, inputs, runs, pc, last_fetch, quota_usage,
                   quota_day_key, picked, concepts, ci, ri, trending_set,
                   region_top_lists, enriched, exec, other, score_in, hint>>

\* main() lines 350-378: one query search of the region in progress
DoSearch(o, j) ==
    /\ pc = "collect"
    /\ qi <= Len(query_words(concept))
    /\ LET r == safe_execute(o, j)
           items == SearchItems(query_words(concept)[qi], region)
           got == r.status = "returned"
       IN  /\ Remote(r)
           /\ ex' = CallRecord(ex.seq + 1, "search", r, SEARCH_COST)
           /\ total_quota' = IF got THEN total_quota + SEARCH_COST ELSE total_quota
           /\ vids_ordered' = IF got THEN AppendNew(vids_ordered, items)
                              ELSE vids_ordered
           /\ all_region_sources' = all_region_sources \cup
                (IF got THEN {<<region, v, "search">> :
                                 v \in Range(items) \ Range(vids_ordered)}
                 ELSE {})
    /\ qi' = qi + 1
    /\ NoWrite
    /\ UNCHANGED <<now, persisted, inputs, runs, pc, last_fetch, quota_usage,
                   quota_day_key, picked, concepts, ci, ri, trending_set,
                   region_top_lists, enriched, exec, other, score_in, hint>>

\* main() lines 380-403: the trending fetch of the region, then the
\* truncation of its candidate list and the step to the next region
DoMostPopular(o, j) ==
    /\ pc = "collect"
    /\ qi > Len(query_words(concept))
    /\ LET r == safe_execute(o, j)
           items == TrendingItems(region)
           got == r.status = "returned"
           vids == IF got THEN AppendNew(vids_ordered, items) ELSE vids_ordered
       IN  /\ Remote(r)
           /\ ex' = CallRecord(ex.seq + 1, "mostPopular", r, MOSTPOPULAR_COST)
           /\ total_quota' = IF got THEN total_quota + MOSTPOPULAR_COST ELSE total_quota
           /\ trending_set' = IF got THEN trending_set \cup Range(items) ELSE trending_set
           /\ all_region_sources' = all_region_sources \cup
                (IF got THEN {<<region, v, "trending">> : v \in Range(items)} ELSE {})
           /\ region_top_lists' = Put(region_top_lists, region, Take(vids, MAX_RANK))
    /\ vids_ordered' = <<>>
    /\ IF ri < Len(regions)
       THEN ri' = ri + 1 /\ qi' = 1 /\ pc' = "collect"
       ELSE pc' = "debug" /\ UNCHANGED <<ri, qi>>
    /\ NoWrite
    /\ UNCHANGED <<now, persisted, inputs, runs, last_fetch, quota_usage,
                   quota_day_key, picked, concepts, ci, enriched, exec, other, score_in, hint>>

RECURSIVE ConcatTop(_, _)
\* the candidate lists in region order, one after the other
ConcatTop(top, i) ==
    IF i > Len(regions) THEN <<>>
    ELSE (IF regions[i] \in DOMAIN top THEN top[regions[i]] ELSE <<>>)
         \o ConcatTop(top, i + 1)

\* video_occurrence.get(vid, 0): regions whose top list holds vid
video_occurrence(top, vid) ==
    Cardinality({r \in DOMAIN top : vid \in Range(top[r])})

\* unique_videos = list(video_occurrence.keys()), in insertion order
unique_videos == Unique(ConcatTop(region_top_lists, 1))

\* number of chunks chunked_list(lst, CHUNK) yields
NChunks(lst) == (Len(lst) + CHUNK - 1) \div CHUNK

\* the k-th chunk (1-based) of chunked_list(lst, CHUNK)
chunked_list(lst, k) == SubSeq(lst, (k - 1) * CHUNK + 1, Min(Len(lst), k * CHUNK))

\* main() lines 405-429: the debug provenance table, the occurrence counts
\* and the early `continue` of a concept without videos
WriteDebug(ok) ==
    /\ pc = "debug"
    /\ Write("debug", ok)
    /\ IF unique_videos = <<>>
       THEN ci' = ci + 1 /\ pc' = "concept" /\ qi' = qi
       ELSE ci' = ci /\ pc' = "videos" /\ qi' = 1
    /\ NoRemote
    /\ UNCHANGED <<now, persisted, inputs, runs, quota_exhausted, last_fetch, quota_usage,
                   quota_day_key, total_quota, picked, concepts, ri,
                   collected, enriched, exec, other, score_in, hint>>

RECURSIVE SetToSeq(_)
\* a set as a list, in some order (list({...}) of a Python set)
SetToSeq(S) == IF S = {} THEN <<>>
               ELSE LET x == CHOOSE y \in S : TRUE
                    IN  <<x>> \o SetToSeq(S \ {x})

\* channel_ids = list({v.get('channelId') for v in video_stats.values() if ...})
channel_ids(stats) == SetToSeq({ChannelOf(v) : v \in stats} \ {""})

\* main() lines 431-463: one videos.list lookup of a chunk of unique_videos
\* (qi counts the chunks)
DoVideosList(o, j) ==
    /\ pc = "videos"
    /\ LET r == safe_execute(o, j)
           chunk == chunked_list(unique_videos, qi)
           got == r.status = "returned"
           stats == IF got THEN video_stats \cup Range(chunk) ELSE video_stats
       IN  /\ Remote(r)
           /\ ex' = CallRecord(ex.seq + 1, "videos", r, VIDEOS_COST * Len(chunk))
           /\ total_quota' = IF got THEN total_quota + VIDEOS_COST * Len(chunk)
                             ELSE total_quota
           /\ video_stats' = stats
           /\ IF qi < NChunks(unique_videos)
              THEN qi' = qi + 1 /\ pc' = "videos"
              ELSE /\ qi' = 1
                   /\ pc' = IF channel_ids(stats) = <<>> THEN "score" ELSE "channels"
    /\ NoWrite
    /\ UNCHANGED <<now, persisted, inputs, runs, last_fetch, quota_usage,
                   quota_day_key, picked, concepts, ci, ri, collected,
                   channel_country, scored_videos, exec, other, score_in, hint>>

\* main() lines 464-482: one channels.list lookup of a chunk of channel_ids
DoChannelsList(o, j) ==
    /\ pc = "channels"
    /\ LET r == safe_execute(o, j)
           chunk == chunked_list(channel_ids(video_stats), qi)
           got == r.status = "returned"
       IN  /\ Remote(r)
           /\ ex' = CallRecord(ex.seq + 1, "channels", r, CHANNELS_COST * Len(chunk))
           /\ total_quota' = IF got THEN total_quota + CHANNELS_COST * Len(chunk)
                             ELSE total_quota
           /\ channel_country' = IF got THEN channel_country \cup Range(chunk)
                                 ELSE channel_country
           /\ IF qi < NChunks(channel_ids(video_stats))
              THEN qi' = qi + 1 /\ pc' = "channels"
              ELSE qi' = 1 /\ pc' = "score"
    /\ NoWrite
    /\ UNCHANGED <<now, persisted, inputs, runs, last_fetch, quota_usage,
                   quota_day_key, picked, concepts, ci, ri, collected,
                   video_stats, scored_videos, exec, other, score_in, hint>>

\* ---------------------------------------------------------------- scoring
\* Scores are fixed-point numbers in millionths (round(x, 6) of the code).
ONE == 1000000

\* the weights 0.30, 0.45 and 0.25, in hundredths
W_RANK == 30
W_POP == 45
W_LOCAL == 25

RECURSIVE LongDiv(_, _, _, _)
\* k more decimal digits of r / b for 0 <= r < b, appended to acc
LongDiv(r, b, k, acc) ==
    IF k = 0 THEN acc
    ELSE LongDiv((r * 10) % b, b, k - 1, acc * 10 + (r * 10) \div b)

\* a / b in millionths, for a >= 0 and b > 0
Ratio(a, b) == (a \div b) * ONE + LongDiv(a % b, b, 6, 0)

\* a * b for two numbers in millionths, b <= ONE
Times(a, b) == (a * (b \div 1000) + (a * (b % 1000)) \div 1000) \div 1000

\* math.log(x) in millionths, for the integers the model takes it of
Ln(x) ==
    CASE x = 1 -> 0
      [] x = 2 -> 693147
      [] x = 3 -> 1098612
      [] x = 4 -> 1386294
      [] x = 5 -> 1609438
      [] x = 6 -> 1791759
      [] x = 7 -> 1945910
      [] x = 8 -> 2079442
      [] x = 9 -> 2197225

\* math.log10(x) in millionths, for the integers the model takes it of
Log10(x) ==
    CASE x = 2 -> 301030
      [] x = 10 -> 1000000
      [] x = 100 -> 2000000
      [] x = 703 -> 2846955
      [] x = 955 -> 2980003
      [] x = 1001 -> 3000434
      [] x = 100000 -> 5000000

\* compute_uniqueness_tf_idf with (N_regions) / (1 + occ) under the logarithm
UniquenessNoSmoothing(occurrence, N_regions) ==
    IF N_regions <= 1 THEN ONE
    ELSE LET idf == Ln(N_regions) - Ln(1 + Max(0, occurrence))
             denom == Ln(N_regions + 1)
         IN  IF denom <= 0 THEN ONE
             ELSE IF idf <= 0 THEN 0 ELSE Ratio(idf, denom)

\* compute_uniqueness_tf_idf(occurrence, N_regions).  The logarithm of the
\* quotient (N+1)/(1+occ) is taken as the difference of the logarithms; its
\* argument is positive, so that nothing is raised.
compute_uniqueness_tf_idf(occurrence, N_regions) ==
    IF N_regions <= 1 THEN ONE
    ELSE LET idf == Ln(N_regions + 1) - Ln(1 + Max(0, occurrence))
             denom == Ln(N_regions + 1)
         IN  IF denom <= 0 THEN ONE
             ELSE IF idf <= 0 THEN 0 ELSE Ratio(idf, denom)

\* rank_score = (MAX_RANK - max(1, min(rank, MAX_RANK)) + 1) / MAX_RANK
rank_score(rank) ==
    ((MAX_RANK - Max(1, Min(rank, MAX_RANK)) + 1) * ONE) \div MAX_RANK

\* popularity with the upper clamp left out
PopularityUnclamped(view_count, denom) ==
    IF view_count <= 0 THEN 0
    ELSE Max(0, Ratio(Log10(view_count + 1), denom))

\* popularity = 0.0 if view_count <= 0
\*              else max(0.0, min(math.log10(view_count + 1) / denom, 1.0))
popularity(view_count, denom) ==
    IF view_count <= 0 THEN 0
    ELSE Max(0, Min(Ratio(Log10(view_count + 1), denom), ONE))

\* trend_boost = 1.0 + (0.10 if vid in trending_set else 0.0), in hundredths
trend_boost(vid, trending) == 100 + (IF vid \in trending THEN 10 ELSE 0)

\* one turn of the loop of compute_scores_for_videos: the scored row of v
ScoredRow(v, occurrences, N_regions, denom_log, trending) ==
    LET d == GetOr(denom_log, v.region, ONE)
        denom == IF d = 0 THEN ONE ELSE d
        rs == rank_score(v.rank)
        pop == popularity(v.viewCount, denom)
        occ == GetOr(occurrences, v.videoId, 0)
        uniq == compute_uniqueness_tf_idf(occ, N_regions)
        inner == (W_RANK * rs + W_POP * pop + W_LOCAL * v.local_hint) \div 100
        boost == trend_boost(v.videoId, trending)
    IN  [videoId |-> v.videoId, region |-> v.region, rank |-> v.rank,
         viewCount |-> v.viewCount, rank_score |-> rs, popularity |-> pop,
         local_hint |-> v.local_hint, local_hint_source |-> v.local_hint_source,
         occurrence_count |-> occ, uniqueness |-> uniq, inner_score |-> inner,
         trend_boost |-> boost,
         final_score |-> (Times(inner, uniq) * boost) \div 100]

\* compute_scores_for_videos(video_rows, video_occurrence, N_regions,
\*                           region_denom_log, trending_set)
compute_scores_for_videos(video_rows, occurrences, N_regions, denom_log, trending) ==
    {ScoredRow(v, occurrences, N_regions, denom_log, trending) : v \in video_rows}

\* lang_prob_matches(text, target_lang).  has_text: the text is not empty;
\* has_langdetect: the value of _HAS_LANGDETECT; detected: what detect_langs
\* does with the text, whether it raises and the probability it gives the
\* language otherwise (0 when the language is not among those it returns).
lang_prob_matches(has_text, target_lang, has_langdetect, detected) ==
    IF ~has_text \/ target_lang = "" \/ ~has_langdetect THEN 0
    ELSE IF detected.raises THEN 0
    ELSE detected.prob

\* main() lines 497-521: the hint and source tag of a row.  channel_match:
\* the channel's country is known and is the region.
local_hint(channel_match, default_lang, target_lang, has_text, has_langdetect, detected) ==
    LET lang_match == default_lang # "" /\ target_lang # ""
                      /\ default_lang = target_lang
        lang_match_prob ==
            IF lang_match THEN 950000
            ELSE IF has_text
            THEN lang_prob_matches(has_text, target_lang, has_langdetect, detected)
            ELSE 0
        mixed == Min(900000, (lang_match_prob * 9) \div 10)
    IN  [hint |-> IF channel_match THEN ONE
                  ELSE IF default_lang # "" THEN Max(mixed, 600000) ELSE mixed,
         source |-> IF channel_match THEN "channel_country"
                    ELSE IF lang_match THEN "default_lang"
                    ELSE IF has_text /\ has_langdetect THEN "langdetect"
                    ELSE "none"]

\* main() lines 490-521: the locality hint of video vid in region r and
\* where it comes from.  stats are the videos videos.list described,
\* countries the channels channels.list gave a country for.
LocalHint(vid, r, stats, countries) ==
    LET known == vid \in stats
        ch_id == IF known THEN ChannelOf(vid) ELSE ""
    IN  local_hint(ch_id # "" /\ ch_id \in countries /\ ChannelCountry(ch_id) = r,
                   IF known THEN DefaultLanguage(vid) ELSE "",
                   REGION_TO_LANG(r),
                   known /\ HasText(vid),
                   _HAS_LANGDETECT,
                   [raises |-> FALSE, prob |-> DetectProb(vid, REGION_TO_LANG(r))])

\* main() lines 485-530: one row per region and rank of its top list
all_video_rows(top, stats, countries) ==
    {[videoId |-> top[p[1]][p[2]], region |-> p[1], rank |-> p[2],
      viewCount |-> IF top[p[1]][p[2]] \in stats THEN ViewCount(top[p[1]][p[2]]) ELSE 0,
      local_hint |-> LocalHint(top[p[1]][p[2]], p[1], stats, countries).hint,
      local_hint_source |-> LocalHint(top[p[1]][p[2]], p[1], stats, countries).source] :
        p \in {q \in (DOMAIN top) \X (1..MAX_RANK) : q[2] <= Len(top[q[1]])}}

\* int(pd.Series(vlist).quantile(0.95)): linear interpolation between the
\* two order statistics around position 0.95 * (n - 1)
Quantile95(vlist) ==
    LET sorted == SortSeq(vlist, LAMBDA a, b : a < b)
        h == 19 * (Len(vlist) - 1)
        lo == h \div 20 + 1
    IN  IF h % 20 = 0 THEN sorted[lo]
        ELSE (20 * sorted[lo] + (h % 20) * (sorted[lo + 1] - sorted[lo])) \div 20

\* main() lines 532-543: the denominator of each region, from the positive
\* view counts of its rows
region_denom_log(top, stats) ==
    [r \in Range(regions) |->
        LET counts == IF r \in DOMAIN top
                      THEN [i \in 1..Len(top[r]) |->
                               IF top[r][i] \in stats THEN ViewCount(top[r][i]) ELSE 0]
                      ELSE <<>>
            vlist == SelectSeq(counts, LAMBDA x : x > 0)
        IN  IF vlist = <<>> THEN ONE
            ELSE IF Quantile95(vlist) > 0 THEN Log10(Quantile95(vlist) + 1) ELSE ONE]

\* main() lines 484-554: assemble the rows and score them
Score ==
    /\ pc = "score"
    /\ scored_videos' = compute_scores_for_videos(
          all_video_rows(region_top_lists, video_stats, channel_country),
          [v \in Range(unique_videos) |-> video_occurrence(region_top_lists, v)],
          Len(regions),
          region_denom_log(region_top_lists, video_stats),
          trending_set)
    /\ pc' = "output"
    /\ NoWrite /\ NoRemote
    /\ UNCHANGED <<now, persisted, inputs, runs, faults, quota_exhausted, locals, picked, collected,
                   video_stats, channel_country, exec, other, score_in, hint>>

\* WriteOutputs with a failed write ending the run
WriteOutputsFatal(ok) ==
    /\ pc = "output"
    /\ outputs' = Put(outputs, concept, IF ok THEN "saved" ELSE "failed")
    /\ Write("outputs", ok)
    /\ pc' = IF ok THEN "last_fetch" ELSE "aborted"
    /\ NoRemote
    /\ UNCHANGED <<now, quota_file, last_fetch_file, rr_file, file_form, inputs, runs,
                   quota_exhausted, locals, picked, collected, enriched, exec, other, score_in, hint>>

\* main() lines 556-569: write the region and video score tables
WriteOutputs(ok) ==
    /\ pc = "output"
    /\ outputs' = Put(outputs, concept, IF ok THEN "saved" ELSE "failed")
    /\ Write("outputs", ok)
    /\ pc' = "last_fetch"
    /\ NoRemote
    /\ UNCHANGED <<now, quota_file, last_fetch_file, rr_file, file_form, inputs, runs,
                   quota_exhausted, locals, picked, collected, enriched, exec, other, score_in, hint>>

\* the stamping with every concept's record set to the new time
StampEveryConcept(lf, c, t) ==
    [x \in (DOMAIN lf) \cup {c} |-> [form |-> "dict", ts |-> t]]

\* last_fetch.setdefault(concept, {}); last_fetch[concept]["last_success"] = utcnow
stamp_last_fetch(lf, c, t) == Put(lf, c, [form |-> "dict", ts |-> t])

\* main() lines 571-574: record the concept's last_success, save the map
UpdateLastFetch(ok) ==
    /\ pc = "last_fetch"
    /\ last_fetch' = stamp_last_fetch(last_fetch, concept, now)
    /\ last_fetch_file' = IF ok THEN last_fetch' ELSE last_fetch_file
    /\ file_form' = IF ok THEN [file_form EXCEPT !.last_fetch = "dict"] ELSE file_form
    /\ Write("last_fetch", ok)
    /\ pc' = "quota"
    /\ NoRemote
    /\ UNCHANGED <<now, quota_file, rr_file, outputs, inputs, runs, quota_exhausted, quota_usage,
                   quota_day_key, total_quota, picked, concepts, ci, ri, qi,
                   collected, enriched, exec, other, score_in, hint>>

\* SaveQuota re-reading the ledger and adding to it what the run has charged
\* since it loaded or last saved
SaveQuotaMerging(ok) ==
    /\ pc = "quota"
    /\ quota_usage' = Put(quota_usage, quota_day_key,
                          GetOr(quota_file, quota_day_key, 0)
                          + (total_quota - GetOr(quota_usage, quota_day_key, 0)))
    /\ quota_file' = IF ok THEN quota_usage' ELSE quota_file
    /\ file_form' = IF ok THEN [file_form EXCEPT !.quota = "dict"] ELSE file_form
    /\ Write("quota", ok)
    /\ ci' = ci + 1
    /\ pc' = "concept"
    /\ NoRemote
    /\ UNCHANGED <<now, last_fetch_file, rr_file, outputs, inputs, runs, quota_exhausted,
                   last_fetch, quota_day_key, total_quota, picked, concepts,
                   ri, qi, collected, enriched, exec, other, score_in, hint>>

\* main() lines 576-582: store total_quota under quota_day_key, save the ledger
SaveQuota(ok) ==
    /\ pc = "quota"
    /\ quota_usage' = Put(quota_usage, quota_day_key, total_quota)
    /\ quota_file' = IF ok THEN quota_usage' ELSE quota_file
    /\ file_form' = IF ok THEN [file_form EXCEPT !.quota = "dict"] ELSE file_form
    /\ Write("quota", ok)
    /\ ci' = ci + 1
    /\ pc' = "concept"
    /\ NoRemote
    /\ UNCHANGED <<now, last_fetch_file, rr_file, outputs, inputs, runs, quota_exhausted,
                   last_fetch, quota_day_key, total_quota, picked, concepts,
                   ri, qi, collected, enriched, exec, other, score_in, hint>>

\* main() lines 584-585: every selected concept has been gone through
AllDone ==
    /\ pc = "concept"
    /\ ci > Len(concepts)
    /\ pc' = "done"
    /\ NoWrite /\ NoRemote
    /\ UNCHANGED <<now, persisted, inputs, runs, faults, quota_exhausted, locals, picked, collected,
                   enriched, exec, other, score_in, hint>>

Next ==
    \/ StartRun
    \/ Tick
    \/ BeginConcept
    \/ \E o \in MainOracles, j \in MainJits : DoSearch(o, j)
    \/ \E o \in MainOracles, j \in MainJits : DoMostPopular(o, j)
    \/ \E ok \in BOOLEAN : WriteDebug(ok)
    \/ \E o \in MainOracles, j \in MainJits : DoVideosList(o, j)
    \/ \E o \in MainOracles, j \in MainJits : DoChannelsList(o, j)
    \/ Score
    \/ \E ok \in BOOLEAN : WriteOutputs(ok)
    \/ \E ok \in BOOLEAN : UpdateLastFetch(ok)
    \/ \E ok \in BOOLEAN : SaveQuota(ok)
    \/ AllDone

Spec == Init /\ [][Next]_vars

\* ------------------- one rotation run on fresh state files (SpecRun)
InitRun ==
    /\ now = StartTime
    /\ quota_file = EmptyMap
    /\ last_fetch_file = EmptyMap
    /\ rr_file = RROk(1)
    /\ outputs = EmptyMap
    /\ args = [concept |-> "", target_count |-> 1]
    /\ all_concepts = <<"a", "b", "c">>
    /\ oracle = NoOracle /\ jit = NoJit /\ result = NoResult
    /\ file_form = FilesGood
    /\ RunIdle /\ OtherIdle

\* the steps of main() other than the scoring step
ProgramStep ==
    \/ StartRun
    \/ BeginConcept
    \/ \E o \in MainOracles, j \in MainJits : DoSearch(o, j)
    \/ \E o \in MainOracles, j \in MainJits : DoMostPopular(o, j)
    \/ \E ok \in BOOLEAN : WriteDebug(ok)
    \/ \E o \in MainOracles, j \in MainJits : DoVideosList(o, j)
    \/ \E o \in MainOracles, j \in MainJits : DoChannelsList(o, j)
    \/ \E ok \in BOOLEAN : WriteOutputs(ok)
    \/ \E ok \in BOOLEAN : UpdateLastFetch(ok)
    \/ \E ok \in BOOLEAN : SaveQuota(ok)
    \/ AllDone

\* main() is a sequential program: as long as it has a next step it takes
\* it, while the clock may or may not advance. Score is enabled exactly when
\* pc = "score" and always leaves it, so its weak fairness is []<>(pc # "score")
SpecRun ==
    InitRun /\ [][Next]_vars /\ WF_vars(ProgramStep) /\ []<>(pc # "score")

\* ------------------------------------- safe_execute on its own (SpecExec)
\* every behaviour of request_func over max_retries invocations and every
\* draw of the jitter
InitExec ==
    /\ oracle \in [1..max_retries -> Outcomes]
    /\ jit \in [1..max_retries -> Jitters]
    /\ result = NoResult
    /\ now = StartTime
    /\ quota_file = EmptyMap /\ last_fetch_file = EmptyMap
    /\ rr_file = RRMissing /\ outputs = EmptyMap
    /\ args = [concept |-> "", target_count |-> TARGET_COUNT]
    /\ all_concepts = <<>>
    /\ file_form = FilesGood
    /\ RunIdle /\ OtherIdle

\* res = safe_execute(request_func)
Execute ==
    /\ result.status = "none"
    /\ result' = safe_execute(oracle, jit)
    /\ UNCHANGED <<now, persisted, io, inputs, runs, faults, quota_exhausted,
                   pc, locals, picked, collected, enriched, ex, oracle, jit, other, score_in, hint>>

NextExec == Execute

SpecExec == InitExec /\ [][NextExec]_vars

\* -------------------- select_concepts_round_robin on its own (SpecRR)
\* concepts.txt of length 0 to 5
RRConceptLists ==
    {<<>>, <<"a">>, <<"a", "b">>, <<"a", "b", "c">>,
     <<"a", "b", "c", "d", "e">>}

\* rr_state.json: absent, or a next_idx left by an earlier run, possibly
\* over a longer or hand-edited list
RRFiles == {RRMissing} \cup {RROk(i) : i \in {-1, 0, 1, 3, 7}}

InitRR ==
    /\ all_concepts \in RRConceptLists
    /\ rr_file \in RRFiles
    /\ args = [concept |-> "", target_count |-> TARGET_COUNT]
    /\ now = StartTime
    /\ quota_file = EmptyMap /\ last_fetch_file = EmptyMap
    /\ outputs = EmptyMap
    /\ oracle = NoOracle /\ jit = NoJit /\ result = NoResult
    /\ file_form = FilesGood
    /\ RunIdle /\ OtherIdle

\* one rotation: select_concepts_round_robin(all_concepts, target_count=t)
RRSelect(t, ok) ==
    /\ runs < MaxSelections
    /\ runs' = runs + 1
    /\ args' = [concept |-> "", target_count |-> t]
    /\ SelectConcepts(t, ok)
    /\ UNCHANGED <<now, quota_file, last_fetch_file, file_form, outputs, all_concepts,
                   quota_exhausted, pc, locals, collected, enriched, ex, exec, other, score_in, hint>>

NextRR == \E t \in -1..MaxTarget, ok \in BOOLEAN : RRSelect(t, ok)

SpecRR == InitRR /\ [][NextRR]_vars

\* ------- rotations repeated at one target_count, as scheduled (SpecFair)
InitFair ==
    /\ all_concepts \in RRConceptLists \ {<<>>}
    /\ rr_file \in RRFiles
    /\ args \in {[concept |-> "", target_count |-> t] : t \in 1..MaxTarget}
    /\ now = StartTime
    /\ quota_file = EmptyMap /\ last_fetch_file = EmptyMap
    /\ outputs = EmptyMap
    /\ oracle = NoOracle /\ jit = NoJit /\ result = NoResult
    /\ file_form = FilesGood
    /\ RunIdle /\ OtherIdle

\* the next scheduled run: select_concepts_round_robin(all_concepts,
\* args.target_count), its write of rr_state.json succeeding
FairSelect ==
    /\ runs < MaxRounds
    /\ runs' = runs + 1
    /\ SelectConcepts(args.target_count, TRUE)
    /\ UNCHANGED <<now, quota_file, last_fetch_file, file_form, outputs, inputs,
                   quota_exhausted, pc, locals, collected, enriched, ex, exec,
                   other, score_in, hint>>

NextFair == FairSelect

\* the scheduler starts the next run as long as there is one to start
SpecFair == InitFair /\ [][NextFair]_vars /\ WF_vars(NextFair)

\* ------------ one run of main() for a concept given with --concept (SpecSolo)
\* a concept of concepts.txt with two regions' worth of results, and one of
\* no list whose searches return more than MAX_RANK videos
SoloConcepts == {"a", "k"}

\* rr_state.json: a cursor, no file, a JSON array
SoloRRFiles == {RROk(1), RRMissing, RRBad("list")}

InitSolo ==
    /\ now = StartTime
    /\ quota_file = EmptyMap /\ last_fetch_file = EmptyMap
    /\ file_form = FilesGood
    /\ rr_file \in SoloRRFiles
    /\ outputs = EmptyMap
    /\ args \in {[concept |-> c, target_count |-> TARGET_COUNT] : c \in SoloConcepts}
    /\ all_concepts = <<"a", "b", "c">>
    /\ oracle = NoOracle /\ jit = NoJit /\ result = NoResult
    /\ RunIdle /\ OtherIdle

SpecSolo == InitSolo /\ [][Next]_vars

\* ------------------ compute_scores_for_videos on its own (SpecScore)
\* ranks below, within and beyond 1..MAX_RANK
ScoreRanks == {0, 1, 5, MAX_RANK, MAX_RANK + 1}

\* view counts: none, one view, the counts of the model's videos, a viral one
ScoreViewCounts == {-1, 0, 1, 99, 1000, 99999}

\* locality hints main() can arrive at: none, the floor of a declared
\* language, a channel of the region
ScoreHints == {0, 600000, ONE}

\* region_denom_log[region]: log10(p95 + 1) for a 95th percentile p95 >= 1,
\* or 1.0 for a region without positive view counts; 0 is replaced by 1.0
ScoreDenoms == {0, ONE} \cup {Log10(p + 1) : p \in {1, 9, 99, 1000}}

\* the arguments of one call for a single row of video v1 in region JP
ScoreInputs ==
    {[video_rows |-> {[videoId |-> "v1", region |-> "JP", rank |-> r,
                       viewCount |-> vc, local_hint |-> h,
                       local_hint_source |-> "none"]},
      video_occurrence |-> [v \in {"v1"} |-> occ],
      N_regions |-> n,
      region_denom_log |-> [x \in {"JP"} |-> d],
      trending_set |-> t] :
        r \in ScoreRanks, vc \in ScoreViewCounts, h \in ScoreHints,
        occ \in -1..(MaxRegions + 1), n \in 0..MaxRegions, d \in ScoreDenoms,
        t \in {{}, {"v1"}}}

InitScore ==
    /\ score_in \in {i \in ScoreInputs : i.video_occurrence["v1"] <= i.N_regions + 1}
    /\ now = StartTime
    /\ quota_file = EmptyMap /\ last_fetch_file = EmptyMap
    /\ file_form = FilesGood
    /\ rr_file = RRMissing /\ outputs = EmptyMap
    /\ args = [concept |-> "", target_count |-> TARGET_COUNT]
    /\ all_concepts = <<>>
    /\ oracle = NoOracle /\ jit = NoJit /\ result = NoResult
    /\ RunIdle
    /\ other_pc = "idle" /\ other_quota_usage = EmptyMap
    /\ other_quota_day_key = 0 /\ other_total_quota = 0
    /\ hint_in = NoHint /\ hint_row = NoHint

\* scored_videos = compute_scores_for_videos(...)
ScoreRows ==
    /\ scored_videos = {}
    /\ scored_videos' = compute_scores_for_videos(
          score_in.video_rows, score_in.video_occurrence, score_in.N_regions,
          score_in.region_denom_log, score_in.trending_set)
    /\ UNCHANGED <<now, persisted, io, inputs, runs, faults, quota_exhausted, pc,
                   locals, picked, collected, video_stats, channel_country, ex,
                   exec, other, score_in, hint>>

NextScore == ScoreRows

SpecScore == InitScore /\ [][NextScore]_vars

\* ------------------- the locality hint of one row on its own (SpecHint)
\* what detect_langs does: it raises, or gives the expected language no
\* probability, a half, all of it
Detections ==
    {[raises |-> TRUE, prob |-> 0]} \cup
    {[raises |-> FALSE, prob |-> p] : p \in {0, 500000, ONE}}

\* a row's channel country is the region or not; it declares no language,
\* Japanese or English; it has text or none; langdetect is installed or not
HintInputs ==
    [channel_match : BOOLEAN, default_lang : {"", "ja", "en"},
     target_lang : {"ja", "en"}, has_text : BOOLEAN,
     has_langdetect : BOOLEAN, detected : Detections]

InitHint ==
    /\ hint_in \in HintInputs
    /\ hint_row = NoHint
    /\ score_in = NoScoreIn
    /\ now = StartTime
    /\ quota_file = EmptyMap /\ last_fetch_file = EmptyMap
    /\ file_form = FilesGood
    /\ rr_file = RRMissing /\ outputs = EmptyMap
    /\ args = [concept |-> "", target_count |-> TARGET_COUNT]
    /\ all_concepts = <<>>
    /\ oracle = NoOracle /\ jit = NoJit /\ result = NoResult
    /\ RunIdle
    /\ other_pc = "idle" /\ other_quota_usage = EmptyMap
    /\ other_quota_day_key = 0 /\ other_total_quota = 0

\* main() lines 497-521 for the row drawn
HintRow ==
    /\ hint_row = NoHint
    /\ hint_row' = local_hint(hint_in.channel_match, hint_in.default_lang,
                              hint_in.target_lang, hint_in.has_text,
                              hint_in.has_langdetect, hint_in.detected)
    /\ UNCHANGED <<now, persisted, io, inputs, runs, faults, quota_exhausted, pc,
                   locals, picked, collected, enriched, ex, exec, other,
                   score_in, hint_in>>

NextHint == HintRow

SpecHint == InitHint /\ [][NextHint]_vars

\* ---------- one run of main() from damaged state files (SpecLoad)
\* a run in which every remote call answers at once and every write succeeds
MainCalm ==
    \/ StartRun
    \/ BeginConcept
    \/ DoSearch(NoOracle, NoJit)
    \/ DoMostPopular(NoOracle, NoJit)
    \/ WriteDebug(TRUE)
    \/ DoVideosList(NoOracle, NoJit)
    \/ DoChannelsList(NoOracle, NoJit)
    \/ Score
    \/ WriteOutputs(TRUE)
    \/ UpdateLastFetch(TRUE)
    \/ SaveQuota(TRUE)
    \/ AllDone

\* quota_usage.json when it holds an object: today's entry at 250
LoadLedgers(form) ==
    IF form = "dict" THEN {[d \in {DayKey(StartTime)} |-> 250]} ELSE {EmptyMap}

\* last_fetch.json when it holds an object: a record for a, or a number
\* where a's record should be ({"a": 5})
LoadLastFetch(form) ==
    IF form = "dict"
    THEN {[c \in {"a"} |-> [form |-> f, ts |-> 0]] : f \in {"dict", "num"}}
    ELSE {EmptyMap}

LoadRRFiles == {RROk(1), RRMissing, RRBad("garbled"), RRBad("list"), RRBad("badidx")}

LoadArgs == {[concept |-> "", target_count |-> 1],
             [concept |-> "a", target_count |-> TARGET_COUNT]}

InitLoad ==
    /\ now = StartTime
    /\ file_form \in [quota : FileForms, last_fetch : FileForms]
    /\ quota_file \in LoadLedgers(file_form.quota)
    /\ last_fetch_file \in LoadLastFetch(file_form.last_fetch)
    /\ rr_file \in LoadRRFiles
    /\ outputs = EmptyMap
    /\ args \in LoadArgs
    /\ all_concepts = <<"a", "b", "c">>
    /\ oracle = NoOracle /\ jit = NoJit /\ result = NoResult
    /\ RunIdle /\ OtherIdle

NextLoad == MainCalm

SpecLoad == InitLoad /\ [][NextLoad]_vars

\* ------------ two runs of main() on one state directory (SpecTwo)
\* The second run is a second process executing the same main(); of its
\* steps the model keeps those that read, charge and write the quota
\* ledger, for a concept of one query in one region.  Nothing in main()
\* locks quota_usage.json or waits for another process, so that the steps
\* of the two runs interleave freely.

\* quota_usage.json before either run: today's entry at 250
TwoLedger == [d \in {DayKey(StartTime)} |-> 250]

InitTwo ==
    /\ now = StartTime
    /\ quota_file = TwoLedger
    /\ last_fetch_file = EmptyMap
    /\ rr_file = RROk(1)
    /\ outputs = EmptyMap
    /\ args \in MainArgs
    /\ all_concepts = <<"a", "b", "c">>
    /\ oracle = NoOracle /\ jit = NoJit /\ result = NoResult
    /\ file_form = FilesGood
    /\ RunIdle /\ OtherIdle

\* main() lines 302-309 in the second run: load the ledger
OtherStart ==
    /\ other_pc = "idle"
    /\ ~LedgerRaises(file_form.quota)
    /\ LET r == reset_quota_if_new_day(
                    load_quota_usage(quota_file, file_form.quota), now)
       IN  /\ other_quota_day_key' = r.key
           /\ other_quota_usage' = r.usage
           /\ other_total_quota' = GetOr(r.usage, r.key, 0)
    /\ other_pc' = "search"
    /\ UNCHANGED <<now, persisted, io, inputs, runs, faults, quota_exhausted, pc,
                   locals, picked, collected, enriched, ex, exec, score_in, hint>>

\* main() lines 365-366 in the second run: a search that returned
OtherSearch ==
    /\ other_pc = "search"
    /\ other_total_quota' = other_total_quota + SEARCH_COST
    /\ other_pc' = "trending"
    /\ UNCHANGED <<now, persisted, io, inputs, runs, faults, quota_exhausted, pc,
                   locals, picked, collected, enriched, ex, exec,
                   other_quota_usage, other_quota_day_key, score_in, hint>>

\* main() lines 390-391 in the second run: a trending fetch that returned
OtherMostPopular ==
    /\ other_pc = "trending"
    /\ other_total_quota' = other_total_quota + MOSTPOPULAR_COST
    /\ other_pc' = "quota"
    /\ UNCHANGED <<now, persisted, io, inputs, runs, faults, quota_exhausted, pc,
                   locals, picked, collected, enriched, ex, exec,
                   other_quota_usage, other_quota_day_key, score_in, hint>>

\* main() lines 576-582 in the second run: store its total, save the ledger
OtherSave ==
    /\ other_pc = "quota"
    /\ other_quota_usage' = Put(other_quota_usage, other_quota_day_key,
                                other_total_quota)
    /\ quota_file' = other_quota_usage'
    /\ file_form' = [file_form EXCEPT !.quota = "dict"]
    /\ other_pc' = "done"
    /\ UNCHANGED <<now, last_fetch_file, rr_file, outputs, io, inputs, runs, faults,
                   quota_exhausted, pc, locals, picked, collected, enriched, ex,
                   exec, other_quota_day_key, other_total_quota, score_in, hint>>

NextTwo ==
    \/ MainCalm
    \/ OtherStart
    \/ OtherSearch
    \/ OtherMostPopular
    \/ OtherSave

SpecTwo == InitTwo /\ [][NextTwo]_vars

\* --------------- successive runs of main(), one after the other (SpecDay)
\* a remote call answers at once or fails on every attempt
DayOracles == {OracleOf(0, "transient"), OracleOf(max_retries, "transient")}

\* command lines of the runs: a rotation of one concept, concept b alone
DayArgs ==
    {[concept |-> "", target_count |-> 1],
     [concept |-> "b", target_count |-> TARGET_COUNT]}

InitDay ==
    /\ now = StartTime
    /\ quota_file \in InitLedgers
    /\ last_fetch_file = EmptyMap
    /\ rr_file = RROk(1)
    /\ outputs = EmptyMap
    /\ args \in DayArgs
    /\ all_concepts = <<"a", "b", "c">>
    /\ oracle = NoOracle /\ jit = NoJit /\ result = NoResult
    /\ file_form = FilesGood
    /\ RunIdle /\ OtherIdle

\* the process of a run has ended, at line 585 or by an uncaught exception;
\* main() is started again with the command line a.  Nothing of the ended
\* run is left but the files.
EndRun(a) ==
    /\ pc \in {"done", "aborted"}
    /\ runs < MaxRuns
    /\ args' = a
    /\ pc' = "idle" /\ faults' = 0 /\ quota_exhausted' = FALSE /\ io' = NoIO
    /\ last_fetch' = EmptyMap /\ quota_usage' = EmptyMap
    /\ quota_day_key' = 0 /\ total_quota' = 0
    /\ picked' = <<>> /\ concepts' = <<>>
    /\ ci' = 0 /\ ri' = 0 /\ qi' = 0
    /\ vids_ordered' = <<>> /\ all_region_sources' = {} /\ trending_set' = {}
    /\ region_top_lists' = EmptyMap
    /\ video_stats' = {} /\ channel_country' = {} /\ scored_videos' = {}
    /\ ex' = NoCall(0)
    /\ UNCHANGED <<now, persisted, all_concepts, runs, exec, other, score_in, hint>>

\* the runs of one day: the clock stays within the day
NextDay ==
    \/ StartRun
    \/ BeginConcept
    \/ \E o \in DayOracles : DoSearch(o, NoJit)
    \/ \E o \in DayOracles : DoMostPopular(o, NoJit)
    \/ WriteDebug(TRUE)
    \/ DoVideosList(NoOracle, NoJit)
    \/ DoChannelsList(NoOracle, NoJit)
    \/ Score
    \/ WriteOutputs(TRUE)
    \/ UpdateLastFetch(TRUE)
    \/ \E ok \in BOOLEAN : SaveQuota(ok)
    \/ AllDone
    \/ \E a \in DayArgs : EndRun(a)

SpecDay == InitDay /\ [][NextDay]_vars

\* ------------- the concepts of successive runs, main() 297-323 (SpecPlan)
\* concepts.txt as a run may find it: the lists of SpecRR and one with a
\* line repeated
PlanConceptLists == RRConceptLists \cup {<<"a", "b", "a">>}

\* --concept of a run: none, a concept of the list, a concept of no list
PlanConcepts == {"", "a", "z"}

InitPlan ==
    /\ all_concepts \in PlanConceptLists
    /\ rr_file \in RRFiles
    /\ args = [concept |-> "", target_count |-> TARGET_COUNT]
    /\ now = StartTime
    /\ quota_file = EmptyMap /\ last_fetch_file = EmptyMap
    /\ outputs = EmptyMap
    /\ oracle = NoOracle /\ jit = NoJit /\ result = NoResult
    /\ file_form = FilesGood
    /\ RunIdle /\ OtherIdle

\* one run of main() as far as its list of concepts: --concept c and
\* --target-count t given on the command line
PlanRun(c, t) ==
    /\ runs < MaxSelections
    /\ runs' = runs + 1
    /\ args' = [concept |-> c, target_count |-> t]
    /\ ChooseConcepts(args')
    /\ UNCHANGED <<now, quota_file, last_fetch_file, file_form, outputs, all_concepts,
                   quota_exhausted, pc, last_fetch, quota_usage, quota_day_key,
                   total_quota, ci, ri, qi, collected, enriched, ex, exec, other, score_in, hint>>

\* concepts.txt is edited between two runs
EditConcepts(l) ==
    /\ runs < MaxSelections
    /\ l # all_concepts
    /\ all_concepts' = l
    /\ NoWrite
    /\ UNCHANGED <<now, persisted, args, runs, faults, quota_exhausted, pc, locals,
                   picked, collected, enriched, ex, exec, other, score_in, hint>>

NextPlan ==
    \/ \E c \in PlanConcepts, t \in (0..MaxTarget) \cup {TARGET_COUNT} : PlanRun(c, t)
    \/ \E l \in PlanConceptLists : EditConcepts(l)

SpecPlan == InitPlan /\ [][NextPlan]_vars

\* ================================================================ claims

RECURSIVE Pow2(_)
Pow2(n) == IF n = 0 THEN 1 ELSE 2 * Pow2(n - 1)

\* how many invocations of request_func fail before the first that succeeds
LeadingFailures(o) ==
    IF \A i \in 1..max_retries : o[i] # "ok" THEN max_retries
    ELSE (CHOOSE i \in 1..max_retries :
             o[i] = "ok" /\ \A h \in 1..(i - 1) : o[h] # "ok") - 1

\* (call sleep)^k call: every sleep lies between a failed invocation and
\* the next invocation, and no sleep follows the last invocation
Alternating(trace, k) ==
    /\ Len(trace) = 2 * k + 1
    /\ \A i \in 1..Len(trace) : trace[i] = IF i % 2 = 1 THEN "call" ELSE "sleep"

\* C1 (as claimed): once an attempt of a remote call has failed with
\* remote-reported quota exhaustion, no further attempt is made in the run:
\* the failed attempt is the last one of its safe_execute call, and main()
\* issues no later remote call.
C1_QuotaShortCircuit ==
    [][/\ \A i \in 1..(Len(ex'.log) - 1) : ex'.log[i] # "quota"
       /\ quota_exhausted => ex'.seq = ex.seq]_vars

\* the configured daily cap of the quota ledger (the code configures none)
DAILY_CAP == 300

\* C2 (as claimed): a remote call is issued only while the accumulated cost
\* of the current day is below the daily cap.  A step that made a remote
\* call started from total_quota less what it charged for the call.
C2_CapAdmission ==
    (ex.kind # "none" /\ DayKey(now) = quota_day_key)
        => total_quota - ex.cost < DAILY_CAP

\* C3 (as claimed): the persisted ledger value of the run's day accounts for
\* every successfully completed remote call but at most the most recent one.
C3_LedgerPersisted ==
    ex.status = "returned"
        => GetOr(quota_file, quota_day_key, 0) + ex.cost >= total_quota

\* C4: safe_execute with its default of 5 attempts.  When request_func fails
\* k <= 4 times and then succeeds it is invoked k+1 times, sleeps k times, the
\* i-th sleep being 2^(i-1) s plus a jitter of at most 0.5 s and lying between
\* the i-th failure and the next invocation, and returns; when it fails 5
\* times it is invoked 5 times, sleeps 4 times, none after the 5th failure,
\* and the 5th failure is raised.
C4_RetryBackoff ==
    result.status # "none" =>
        LET k == LeadingFailures(oracle)
            slept == Min(k, max_retries - 1)
        IN  /\ result.invoked = Min(k + 1, max_retries)
            /\ Len(result.sleeps) = slept
            /\ \A i \in 1..slept :
                  /\ result.sleeps[i].base = Pow2(i - 1) * initial_backoff
                  /\ result.sleeps[i].jitter \in 0..500
            /\ Alternating(result.trace, slept)
            /\ IF k < max_retries
               THEN result.status = "returned" /\ result.err = "none"
               ELSE result.status = "raised" /\ result.err = oracle[max_retries]

\* two failures, then success: two sleeps of 1 s and 2 s, then the result
C4_Witness ==
    /\ result.status = "returned"
    /\ LeadingFailures(oracle) = 2
    /\ result.invoked = 3
    /\ Len(result.sleeps) = 2

\* C6: select_concepts_round_robin on a list of length n > 0 with persisted
\* cursor c and target_count t >= 0 returns list[(start + j) mod n] for
\* j = 0 .. min(t, n) - 1 in that order, start = c mod n, and hands
\* (start + min(t, n)) mod n to _save_rr_state, which persists it when the
\* write succeeds; on an empty list it returns an empty selection.
C6_RoundRobin ==
    [][runs' = runs + 1 =>
        LET n == Len(all_concepts)
            t == args'.target_count
            c == IF rr_file.kind = "ok" THEN rr_file.idx ELSE 0
        IN  IF n = 0 THEN picked' = <<>>
            ELSE t >= 0 =>
                 LET start == c % n
                     m == Min(t, n)
                 IN  /\ Len(picked') = m
                     /\ \A j \in 0..(m - 1) :
                          picked'[j + 1] = all_concepts[((start + j) % n) + 1]
                     /\ io'.file = "rr"
                     /\ io'.ok => rr_file' = RROk((start + m) % n)]_vars

\* [a,b,c,d,e], cursor 3, target_count 3: [d,e,a] and cursor 1
C6_Witness ==
    /\ all_concepts = <<"a", "b", "c", "d", "e">>
    /\ args.target_count = 3
    /\ picked = <<"d", "e", "a">>
    /\ rr_file = RROk(1)
    /\ runs = 1

\* C9: reset_quota_if_new_day returns a ledger that holds today's day key:
\* inserted with value 0 when absent, unchanged when present, and every
\* other key and value as loaded.
C9_ResetKeepsOthers ==
    [][(pc = "idle" /\ pc' # "idle") =>
        LET today == DayKey(now)
        IN  /\ quota_day_key' = today
            /\ DOMAIN quota_usage' = (DOMAIN quota_file) \cup {today}
            /\ today \notin DOMAIN quota_file => quota_usage'[today] = 0
            /\ \A d \in DOMAIN quota_file : quota_usage'[d] = quota_file[d]]_vars

\* a ledger holding only yesterday's key ends with both keys
C9_Witness ==
    /\ pc = "concept" /\ ci = 1
    /\ DOMAIN quota_file = {DayKey(StartTime) - 1}
    /\ DOMAIN quota_usage = {DayKey(StartTime) - 1, DayKey(StartTime)}
    /\ quota_usage[DayKey(StartTime)] = 0
    /\ quota_usage[DayKey(StartTime) - 1] = quota_file[DayKey(StartTime) - 1]

\* every concept name of the model
ConceptNames == {"a", "b", "c", "d", "e"}

\* main() is inside the body of its concept loop
InConcept == pc \in {"collect", "debug", "videos", "channels", "score",
                     "output", "last_fetch", "quota"}

\* C5: a concept's last-fetch record changes only after the concept's
\* scores have been computed and the write of its result tables has been
\* attempted in this run: main's map changes only for the concept in
\* progress, then, and the file only for concepts whose write has been
\* attempted (a save that failed is made good by a later save).  The step
\* that follows the write attempt, failed or not, stamps the record with the
\* current time.  Every other concept (not selected, without videos, not
\* reached) keeps its record.
C5_LastFetchOrder ==
    [][/\ \A c \in ConceptNames :
            /\ (pc # "idle" /\ LastSuccess(last_fetch', c) # LastSuccess(last_fetch, c))
                 => /\ InConcept /\ c = concept
                    /\ scored_videos # {}
                    /\ c \in DOMAIN outputs
            /\ LastSuccess(last_fetch_file', c) # LastSuccess(last_fetch_file, c)
                 => /\ c \in DOMAIN outputs
                    /\ c = concept => scored_videos # {}
       /\ (pc = "last_fetch" /\ pc' # pc)
            => /\ LastSuccess(last_fetch', concept) = now
               /\ io'.file = "last_fetch"
               /\ io'.ok => LastSuccess(last_fetch_file', concept) = now]_vars

\* the result tables of a concept could not be written, and its record on
\* disk carries the new time all the same
C5_Witness ==
    /\ pc = "quota"
    /\ concept \in DOMAIN outputs /\ outputs[concept] = "failed"
    /\ io = [file |-> "last_fetch", ok |-> TRUE]
    /\ now > StartTime
    /\ LastSuccess(last_fetch_file, concept) = now

\* the configured cooldown window, in clock ticks (the code configures none)
COOLDOWN == 2

\* a last-fetch timestamp ts lies within the cooldown window of time t
Cooling(ts, t) == ts >= 0 /\ ts <= t /\ t - ts < COOLDOWN

\* C7 (as claimed): while the concept in progress has a last-fetch timestamp
\* within the cooldown window of the current time and no force override is
\* given, the run makes no remote call for it and leaves its last-fetch
\* record as it is.
C7_CooldownSkip ==
    [][(InConcept /\ ~force /\ Cooling(LastSuccess(last_fetch, concept), now))
        => /\ ex'.seq = ex.seq
           /\ LastSuccess(last_fetch', concept) = LastSuccess(last_fetch, concept)
           /\ LastSuccess(last_fetch_file', concept)
                = LastSuccess(last_fetch_file, concept)]_vars

\* the entry of day d in a ledger file; -1 when the file has no such key
Entry(file, d) == IF d \in DOMAIN file THEN file[d] ELSE -1

\* C8 (as claimed): a ledger write changes only the entry of the
\* service-timezone day at the moment of the write.
C8_LedgerDay ==
    [][\A d \in (DOMAIN quota_file) \cup (DOMAIN quota_file') :
          d # DayKey(now) => Entry(quota_file', d) = Entry(quota_file, d)]_vars

\* C10 (as claimed): a scored row has trend boost 1.10 exactly when its
\* video was returned by the trending fetch of the row's own region.
C10_TrendBoost ==
    \A row \in scored_videos :
        (row.trend_boost = 110)
            <=> (<<row.region, row.videoId, "trending">> \in all_region_sources)

\* how often x occurs in the list s
Count(s, x) == Cardinality({j \in 1..Len(s) : s[j] = x})

\* C11 (as claimed): after every run, rotation or explicit, whatever the
\* cursor file held before and whatever concepts.txt holds now, the persisted
\* round-robin cursor of a non-empty concept list is an integer in
\* [0, len(concepts)).
C11_CursorInRange ==
    [][runs' = runs + 1 =>
        ((all_concepts' # <<>> /\ rr_file'.kind # "missing")
            => /\ rr_file'.kind = "ok"
               /\ rr_file'.idx \in 0..(Len(all_concepts') - 1))]_vars

C13_ExplicitConcept ==
    [][args.concept # "" =>
        /\ rr_file' = rr_file
        /\ io'.file # "rr"
        /\ picked' = <<>>
        /\ pc' # "idle" =>
              /\ concepts' = <<args.concept>>
              /\ pc' # "aborted"
              /\ InConcept' => (ci' = 1 /\ concept' = args.concept)
              /\ pc' = "concept" => ci' \in {1, 2}
              /\ pc' = "done" => ci' = 2
              /\ DOMAIN outputs' \subseteq {args.concept}]_vars

\* the run for k, which is no line of concepts.txt, has written k's tables
\* and ended; the cursor is where it was
C13_Witness ==
    /\ args.concept = "k" /\ "k" \notin Range(all_concepts)
    /\ pc = "done"
    /\ concepts = <<"k">>
    /\ DOMAIN outputs = {"k"}
    /\ rr_file = RROk(1)

\* the index of the first appearance of x in s
FirstPos(s, x) == CHOOSE i \in 1..Len(s) : s[i] = x /\ \A j \in 1..(i - 1) : s[j] # x

\* l holds no identifier twice
NoDuplicate(l) == \A i, j \in 1..Len(l) : i # j => l[i] # l[j]

\* l is the first k elements of the duplicate-free sequence of s (first
\* appearances kept, in their order)
IsFirstOfDedup(l, s, k) ==
    /\ NoDuplicate(l)
    /\ Range(l) \subseteq Range(s)
    /\ Len(l) = Min(k, Cardinality(Range(s)))
    /\ \A i, j \in 1..Len(l) : i < j => FirstPos(s, l[i]) < FirstPos(s, l[j])
    /\ \A x \in Range(s) \ Range(l) :
          \A i \in 1..Len(l) : FirstPos(s, l[i]) < FirstPos(s, x)

RECURSIVE Flatten(_)
\* the lists of a list, one after the other
Flatten(ss) == IF ss = <<>> THEN <<>> ELSE Head(ss) \o Flatten(Tail(ss))

\* what the queries of concept c return for region r, in query order, then
\* what the trending fetch of r returns
AllResults(c, r) ==
    Flatten([i \in 1..Len(query_words(c)) |-> SearchItems(query_words(c)[i], r)])
        \o TrendingItems(r)

\* C18: the candidate list of a region is the first MAX_RANK elements of the
\* duplicate-free sequence of the results of the concept's queries, in query
\* order, followed by the trending results, first appearances kept: each
\* search that returns extends the list so, a call that fails adds nothing,
\* and the trending fetch ends the list with the truncation.  The list has at
\* most MAX_RANK entries and no identifier twice, every search-found
\* identifier precedes every trending-only one, and the rank of a scored row
\* is the 1-based index of its video in the list.
C18_CandidateList ==
    [][/\ (ex'.seq # ex.seq /\ ex'.kind = "search") =>
            LET items == SearchItems(query_words(concept)[qi], region)
            IN  IF ex'.status = "returned"
                THEN IsFirstOfDedup(vids_ordered', vids_ordered \o items,
                                    Len(vids_ordered) + Len(items))
                ELSE vids_ordered' = vids_ordered
       /\ (ex'.seq # ex.seq /\ ex'.kind = "mostPopular") =>
            /\ IsFirstOfDedup(region_top_lists'[region],
                   IF ex'.status = "returned"
                   THEN vids_ordered \o TrendingItems(region) ELSE vids_ordered,
                   MAX_RANK)
            /\ (faults' = 0 /\ ci = 1) =>
                   IsFirstOfDedup(region_top_lists'[region],
                                  AllResults(concept, region), MAX_RANK)
       /\ \A r \in DOMAIN region_top_lists' :
            LET l == region_top_lists'[r]
                searched(v) == <<r, v, "search">> \in all_region_sources'
            IN  /\ Len(l) <= MAX_RANK
                /\ NoDuplicate(l)
                /\ \A i, j \in 1..Len(l) : (i < j /\ searched(l[j])) => searched(l[i])
                /\ \A i \in 1..Len(l) :
                      searched(l[i]) \/ <<r, l[i], "trending">> \in all_region_sources'
       /\ \A row \in scored_videos' :
            /\ row.rank \in 1..Len(region_top_lists'[row.region])
            /\ region_top_lists'[row.region][row.rank] = row.videoId
       /\ scored_videos' # {} =>
            \A r \in DOMAIN region_top_lists' :
               \A i \in 1..Len(region_top_lists'[r]) :
                  \E row \in scored_videos' : row.region = r /\ row.rank = i]_vars

\* the searches of k return ten videos for JP; the trending video v1 comes
\* eleventh and is cut off, for US the twelve results of one query are cut
C18_Witness ==
    /\ pc = "debug" /\ concept = "k"
    /\ region_top_lists["JP"] =
          <<"w1", "w2", "w3", "w4", "w5", "w6", "w7", "w8", "w9", "w10">>
    /\ <<"JP", "v1", "trending">> \in all_region_sources
    /\ Len(region_top_lists["US"]) = MAX_RANK
    /\ "w11" \notin Range(region_top_lists["US"])

\* C14 (as claimed): a state file that is missing or whose content is
\* corrupt (unparseable, or parseable but not of the expected shape) loads as
\* the default (empty map, empty ledger, cursor 0), and no run ends because
\* of what a state file holds.
C14_CorruptLoads ==
    [][/\ pc' # "aborted"
       /\ (pc = "idle" /\ pc' # "idle") =>
            /\ file_form.last_fetch # "dict" => last_fetch' = EmptyMap
            /\ file_form.quota # "dict" =>
                  quota_usage' = [d \in {DayKey(now)} |-> 0]
            /\ (args.concept = "" /\ rr_file.kind # "ok") =>
                  picked' = SubSeq(all_concepts, 1,
                                   Min(args.target_count, Len(all_concepts)))]_vars

\* C15: every row compute_scores_for_videos produces has its rank score, its
\* popularity and its uniqueness within [0, 1] and a final score of at
\* least 0, whatever rank, view count, occurrence count, number of regions
\* and regional denominator it is called with.
C15_ScoreRanges ==
    \A row \in scored_videos :
        /\ 0 <= row.rank_score /\ row.rank_score <= ONE
        /\ 0 <= row.popularity /\ row.popularity <= ONE
        /\ 0 <= row.uniqueness /\ row.uniqueness <= ONE
        /\ row.final_score >= 0

\* a viral video (log10 of its views is sixteen times the denominator) at
\* a rank beyond MAX_RANK: popularity 1, rank score 1/MAX_RANK
C15_Witness ==
    \E row \in scored_videos :
        /\ row.viewCount = 99999 /\ score_in.region_denom_log["JP"] = Log10(2)
        /\ row.popularity = ONE
        /\ row.rank = MAX_RANK + 1 /\ row.rank_score = ONE \div MAX_RANK
        /\ row.final_score > 0

\* C16: compute_uniqueness_tf_idf is 1 for N <= 1 whatever the occurrence
\* count; for N > 1 it is strictly decreasing in the occurrence count over
\* 0..N, from 1 at 0 to 0 at N, so that a row whose video is in the top list
\* of all N > 1 regions has final score 0 whatever its rank, popularity,
\* hint and trend boost.
C16_Uniqueness ==
    \A row \in scored_videos :
        LET n == score_in.N_regions
            occ == row.occurrence_count
        IN  /\ n <= 1 => row.uniqueness = ONE
            /\ (n > 1 /\ occ \in 0..n) =>
                  /\ \A less \in 0..(occ - 1) :
                        compute_uniqueness_tf_idf(less, n) > row.uniqueness
                  /\ occ = 0 => row.uniqueness = ONE
                  /\ occ = n => (row.uniqueness = 0 /\ row.final_score = 0)
                  /\ occ < n => row.uniqueness > 0

\* five regions, the video in the top list of all five: final score 0 at
\* rank 1 with full popularity, full hint and the trend boost
C16_Witness ==
    \E row \in scored_videos :
        /\ score_in.N_regions = 5 /\ row.occurrence_count = 5
        /\ row.rank = 1 /\ row.popularity = ONE /\ row.local_hint = ONE
        /\ row.trend_boost = 110
        /\ row.inner_score = ONE
        /\ row.uniqueness = 0 /\ row.final_score = 0

\* C17: two overlapping runs lose an update of the quota ledger.  Each run
\* saves the total it holds itself, the value it loaded plus its own
\* charges, whatever quota_usage.json holds by then, and no step of one run
\* changes the total the other holds; so the run that saves last erases the
\* charges the other has saved since it loaded.
C17_LostUpdate ==
    [][/\ (pc = "quota" /\ pc' = "concept") =>
             /\ quota_file'[quota_day_key] = total_quota
             /\ other_total_quota' = other_total_quota
       /\ (other_pc = "quota" /\ other_pc' = "done") =>
             /\ quota_file'[other_quota_day_key] = other_total_quota
             /\ total_quota' = total_quota
       /\ other_pc' # other_pc => total_quota' = total_quota
       /\ pc' # pc => other_total_quota' = other_total_quota]_vars

\* both runs loaded the ledger at 250 and both have saved, the second run
\* last: the ledger holds 250 plus the second run's charges only, less than
\* 250 plus the charges of both
C17_Witness ==
    /\ pc = "done" /\ other_pc = "done"
    /\ ex.seq > 0
    /\ LET day == DayKey(StartTime)
           initial == TwoLedger[day]
           mine == total_quota - initial
           theirs == other_total_quota - initial
       IN  /\ quota_day_key = day /\ other_quota_day_key = day
           /\ theirs = SEARCH_COST + MOSTPOPULAR_COST
           /\ mine > 0
           /\ quota_file[day] = initial + theirs
           /\ quota_file[day] < initial + mine + theirs

\* the service has no video for concept c: no search and no trending chart
\* of any region returns an item
NothingToCollect(c) ==
    \A r \in Range(regions) :
        /\ TrendingItems(r) = <<>>
        /\ \A i \in 1..Len(query_words(c)) : SearchItems(query_words(c)[i], r) = <<>>

\* C19: failed search, trending or metadata calls never keep a concept from
\* being scored and written: a concept ends after its collection, without
\* scoring and output, only if the service had no video for it.
C19_StillScored ==
    [][(pc = "debug" /\ pc' = "concept") => NothingToCollect(concept)]_vars

C21_LedgerMonotone ==
    [][GetOr(quota_file', DayKey(now), 0) >= GetOr(quota_file, DayKey(now), 0)]_vars

\* the second run of the day: the first run's save is in the file, the
\* second run has charged more and its save has just failed
C21_Witness ==
    /\ runs = 2
    /\ io = [file |-> "quota", ok |-> FALSE]
    /\ quota_day_key = DayKey(now)
    /\ quota_day_key \in DOMAIN quota_file
    /\ quota_file[quota_day_key] > 250
    /\ total_quota > quota_file[quota_day_key]

\* C22: a row whose channel country is not the region and whose declared
\* language is not the region's language has hint 0 and source "none"
\* whenever detect_langs raises or langdetect is not installed.
C22_DetectionFallback ==
    (/\ hint_row # NoHint
     /\ ~hint_in.channel_match
     /\ hint_in.default_lang # hint_in.target_lang
     /\ (hint_in.detected.raises \/ ~hint_in.has_langdetect))
    => (hint_row.hint = 0 /\ hint_row.source = "none")

\* the concepts of the lists drawn
FairNames == UNION {Range(l) : l \in RRConceptLists}

\* ceil(n / t)
CeilDiv(n, t) == (n + t - 1) \div t

\* C23: rotation runs over a fixed list of n > 0 concepts, all at the same
\* target_count t >= 1 and with their cursor writes succeeding: the
\* selections of two consecutive runs, one after the other, are one circular
\* stretch of the list with nothing left out between them; and every concept
\* of the list is selected in one of any ceil(n / t) consecutive runs.
C23_FairCoverage ==
    /\ [][(runs >= 1 /\ runs' = runs + 1) =>
            LET n == Len(all_concepts)
                both == picked \o picked'
                s == PyMod(rr_file.idx - Len(picked), n)
            IN  /\ Len(picked') = Min(args.target_count, n)
                /\ \A j \in 1..Len(both) :
                      both[j] = all_concepts[PyMod(s + j - 1, n) + 1]]_vars
    /\ \A r0 \in 0..MaxRounds : \A x \in FairNames :
          [](LET k == CeilDiv(Len(all_concepts), args.target_count)
             IN  (runs = r0 /\ r0 + k <= MaxRounds /\ x \in Range(all_concepts))
                 => <>(runs > r0 /\ runs <= r0 + k /\ x \in Range(picked)))

\* five concepts taken one a run from cursor 3: the fifth run selects c and
\* the cursor is back at 3
C23_Witness ==
    /\ all_concepts = <<"a", "b", "c", "d", "e">>
    /\ args.target_count = 1
    /\ runs = 5
    /\ picked = <<"c">>
    /\ rr_file = RROk(3)

\* C24: the time a run stores in last_fetch.json as a concept's
\* last_success is no later than the time of any search call the run made
\* for the concept, so that the window of the next run's searches begins
\* where this run's searches ended or before.
C24_StampBeforeSearch ==
    \A c \in ConceptNames : \A t \in StartTime..(StartTime + MaxTicks) :
        []((InConcept /\ concept = c /\ ex.kind = "search" /\ now = t)
             => [](LastSuccess(last_fetch_file, c) <= t))

\* a search call of the run for concept c has just returned
SearchReturned(c) ==
    InConcept /\ concept = c /\ ex.kind = "search" /\ ex.status = "returned"

\* C25: a run changes a concept's last_success in last_fetch.json only if a
\* search call it made for the concept returned: in a run in which none
\* does, the record stays as the run found it, whatever the trending
\* fetches return.
C25_StampNeedsSearch ==
    \A c \in ConceptNames : \A ts \in -1..(StartTime + MaxTicks) :
        LastSuccess(last_fetch_file, c) = ts =>
            (<>SearchReturned(c) \/ [](LastSuccess(last_fetch_file, c) = ts))

\* main() has ended: normally, or with an uncaught exception
Terminated == pc \in {"done", "aborted"}

\* a bound on the steps main() takes for one concept: the searches and the
\* trending fetch of each region, the lookups of at most one chunk per
\* candidate and per channel, and the seven single steps around them
StepsPerConcept ==
    7 + 2 * (MAX_RANK * Len(regions))
      + Len(regions) * (Len(query_words("a")) + 1)

\* the steps left inside the concept in progress
StepsLeftInConcept ==
    CASE pc = "quota" -> 1
      [] pc = "last_fetch" -> 2
      [] pc = "output" -> 3
      [] pc = "score" -> 4
      [] pc = "channels" -> 5 + (NChunks(channel_ids(video_stats)) - qi)
      [] pc = "videos" ->
            5 + MAX_RANK * Len(regions) + (NChunks(unique_videos) - qi)
      [] pc = "debug" -> 5 + 2 * (MAX_RANK * Len(regions))
      [] pc = "collect" ->
            6 + 2 * (MAX_RANK * Len(regions))
              + (Len(regions) - ri) * (Len(query_words(concept)) + 1)
              + (Len(query_words(concept)) + 1 - qi)
      [] OTHER -> 0

\* the steps main() has left at most: 0 when it has ended, and one more
\* than the steps of every concept not gone through otherwise
StepsLeft ==
    CASE Terminated -> 0
      [] pc = "idle" -> 2 + Max(Len(all_concepts), 1) * StepsPerConcept
      [] pc = "concept" -> 1 + (Len(concepts) + 1 - ci) * StepsPerConcept
      [] OTHER -> 1 + (Len(concepts) - ci) * StepsPerConcept + StepsLeftInConcept

\* C26: every run terminates. A run of main() that takes its next step as
\* long as it has one reaches its end or aborts, whatever the remote service
\* does; every step of main() (every step but the clock's) lowers the number
\* StepsLeft, which is never negative; a step makes at most one logical
\* remote call, of between 1 and max_retries = 5 attempts; and a search call
\* moves on to the next query of the same concept and region, a trending
\* call to the next region or out of the collection, a lookup to the next
\* chunk or out of the lookups, so that no query, region or chunk is called
\* for twice.
C26_Terminates ==
    /\ [][/\ now' = now => (StepsLeft' < StepsLeft /\ StepsLeft' >= 0)
          /\ ex'.seq # ex.seq =>
                /\ ex'.seq = ex.seq + 1
                /\ ex'.invoked \in 1..max_retries
                /\ Len(ex'.log) = ex'.invoked
                /\ ex'.status \in {"returned", "raised"}
          /\ (ex'.seq # ex.seq /\ ex'.kind = "search") =>
                /\ pc = "collect" /\ pc' = "collect"
                /\ qi \in 1..Len(query_words(concept))
                /\ ci' = ci /\ ri' = ri /\ qi' = qi + 1
          /\ (ex'.seq # ex.seq /\ ex'.kind = "mostPopular") =>
                /\ pc = "collect" /\ ci' = ci
                /\ \/ pc' = "collect" /\ ri' = ri + 1 /\ qi' = 1
                   \/ pc' = "debug" /\ ri = Len(regions)
          /\ (ex'.seq # ex.seq /\ ex'.kind = "videos") =>
                /\ pc = "videos" /\ ci' = ci
                /\ qi \in 1..NChunks(unique_videos)
                /\ \/ pc' = "videos" /\ qi' = qi + 1
                   \/ pc' \in {"channels", "score"} /\ qi = NChunks(unique_videos)
          /\ (ex'.seq # ex.seq /\ ex'.kind = "channels") =>
                /\ pc = "channels" /\ ci' = ci
                /\ qi \in 1..NChunks(channel_ids(video_stats))
                /\ \/ pc' = "channels" /\ qi' = qi + 1
                   \/ pc' = "score" /\ qi = NChunks(channel_ids(video_stats))
         ]_vars
    /\ <>Terminated

\* C26 witness: a run has reached its end after remote calls of which as
\* many as the fault budget allows failed on all five attempts, one of
\* them with a quota error
C26_Witness ==
    /\ pc = "done"
    /\ faults = MaxFaults
    /\ quota_exhausted
    /\ ex.seq >= Len(regions) * 2 + 2
    /\ io.ok

====
